---- MODULE Spec2Model ----
(***************************************************************************)
(* A model of json_dto.h: the adapter registry (adapter<T>::get / ::set),  *)
(* the field walkers json_reader / json_writer, and the top-level          *)
(* loads / load / dumps calls.                                             *)
(*                                                                         *)
(* Host values                                                             *)
(*   int, int64_t, float, double  an integer                               *)
(*   unsigned, uint64_t, size_t   a set of bit positions (0 = least bit)   *)
(*   bool                         a BOOLEAN                                *)
(*   std::string                  a sequence of one-character strings      *)
(*   std::bitset<N>               the set of positions of its set bits     *)
(*   std::vector, std::array      a sequence                               *)
(*   array_with_size              [array |-> sequence of N, size |-> n]    *)
(*   a map                        a function from its keys                 *)
(*   optional, unique_ptr,                                                 *)
(*   shared_ptr, T*               <<>> (empty / null) or <<x>>             *)
(*   std::variant                 <<i, x>>: index() i from 0, holding x    *)
(*   an enum                      its ordinal                              *)
(*   a struct with fields         a function from field names              *)
(***************************************************************************)
EXTENDS Integers, Sequences, FiniteSets, TLC

\* the standard library the program is built with
VARIABLE stdlib

Stdlibs == {"libstdc++", "libc++"}

(***************************************************************************)
(* Unsigned integers as sets of bit positions.                             *)
(***************************************************************************)
RECURSIVE BitsOf(_)
BitsOf(n) ==
    IF n = 0 THEN {}
    ELSE (IF n % 2 = 1 THEN {0} ELSE {}) \cup {b + 1 : b \in BitsOf(n \div 2)}

RECURSIVE Pow2(_)
Pow2(b) == IF b = 0 THEN 1 ELSE 2 * Pow2(b - 1)

RECURSIVE ToNat(_)
ToNat(bits) ==
    IF bits = {} THEN 0
    ELSE LET b == CHOOSE x \in bits : TRUE IN Pow2(b) + ToNat(bits \ {b})

(***************************************************************************)
(* rapidjson::Value.  A number carries its sign and its magnitude; the     *)
(* Is<Kind>() queries are the ranges rapidjson's number flags stand for.   *)
(***************************************************************************)
NullV      == [k |-> "null"]
BoolV(b)   == [k |-> "bool", b |-> b]
Uint64V(m) == [k |-> "num", neg |-> FALSE, mag |-> m]
IntV(n)    == [k |-> "num", neg |-> n < 0, mag |-> BitsOf(IF n < 0 THEN -n ELSE n)]
DoubleV(d) == [k |-> "dbl", d |-> d]
StrV(s)    == [k |-> "str", s |-> s]
ArrV(xs)   == [k |-> "arr", items |-> xs]
ObjV(ms)   == [k |-> "obj", members |-> ms]
Member(name, v) == [name |-> name, value |-> v]

IsNull(v)   == v.k = "null"
IsString(v) == v.k = "str"
IsArray(v)  == v.k = "arr"
IsObject(v) == v.k = "obj"

\* v.Is<TYPE>() of the ADAPTER macro's seven instantiations
IsKind(TYPE, v) ==
    CASE TYPE = "Bool"   -> v.k = "bool"
      [] TYPE = "Int"    -> v.k = "num" /\ (v.mag \subseteq 0..30 \/ (v.neg /\ v.mag = {31}))
      [] TYPE = "Uint"   -> v.k = "num" /\ ~v.neg /\ v.mag \subseteq 0..31
      [] TYPE = "Int64"  -> v.k = "num" /\ (v.mag \subseteq 0..62 \/ (v.neg /\ v.mag = {63}))
      [] TYPE = "Uint64" -> v.k = "num" /\ ~v.neg /\ v.mag \subseteq 0..63
      [] TYPE = "Float"  -> v.k = "dbl"
      [] TYPE = "Double" -> v.k = "dbl"

\* (CPP_TYPE)v.Get<TYPE>()
GetKind(TYPE, v) ==
    CASE TYPE = "Bool"                -> v.b
      [] TYPE \in {"Int", "Int64"}    -> IF v.neg THEN -ToNat(v.mag) ELSE ToNat(v.mag)
      [] TYPE \in {"Uint", "Uint64"}  -> v.mag
      [] TYPE \in {"Float", "Double"} -> v.d

\* v.Set<TYPE>(value)
SetKind(TYPE, value) ==
    CASE TYPE = "Bool"                -> BoolV(value)
      [] TYPE \in {"Int", "Int64"}    -> IntV(value)
      [] TYPE \in {"Uint", "Uint64"}  -> Uint64V(value)
      [] TYPE \in {"Float", "Double"} -> DoubleV(value)

\* obj.FindMember(name): the index of the first member of that name, 0 for MemberEnd()
FindMember(v, name) ==
    IF \E i \in 1..Len(v.members) : v.members[i].name = name
    THEN CHOOSE i \in 1..Len(v.members) :
             /\ v.members[i].name = name
             /\ \A j \in 1..(i - 1) : v.members[j].name # name
    ELSE 0

\* v.AddMember(key, value, a): appended, whatever the object already holds
AddMember(v, name, value) == ObjV(Append(v.members, Member(name, value)))

(***************************************************************************)
(* What a call does: it returns true or false, or leaves by an exception.  *)
(* val is the destination as the call leaves it, msg the exception's       *)
(* reason.                                                                 *)
(***************************************************************************)
RetTrue(val)    == [st |-> "true", val |-> val, msg |-> <<>>]
RetFalse(val)   == [st |-> "false", val |-> val, msg |-> <<>>]
Throw(val, msg) == [st |-> "parse_exception", val |-> val, msg |-> msg]
Left(r)         == r.st \notin {"true", "false"}
Undefined(val)  == [st |-> "undefined", val |-> val, msg |-> <<>>]

(***************************************************************************)
(* Types.  A template argument is a descriptor; the capability concepts    *)
(* (resizable, fillable, struct_like) read it.                             *)
(***************************************************************************)
TPrim(TYPE)       == [t |-> "prim", TYPE |-> TYPE]
TInt              == TPrim("Int")
TUint64           == TPrim("Uint64")
TBool             == TPrim("Bool")
TDouble           == TPrim("Double")
TString           == [t |-> "string"]
TBitset(N)        == [t |-> "bitset", N |-> N]
TVector(E)        == [t |-> "array", A |-> "vector", elem |-> E, N |-> 0]
TStdArray(E, N)   == [t |-> "array", A |-> "std_array", elem |-> E, N |-> N]
TFixed(E, N)      == [t |-> "array", A |-> "fixed", elem |-> E, N |-> N]
TArrayWithSize(E, N) == [t |-> "array", A |-> "array_with_size", elem |-> E, N |-> N]
TMap(K, M)        == [t |-> "map", key |-> K, mapped |-> M]
TOptional(E)      == [t |-> "optional", elem |-> E]
TUniquePtr(E)     == [t |-> "unique_ptr", elem |-> E]
TSharedPtr(E)     == [t |-> "shared_ptr", elem |-> E]
TPtr(E)           == [t |-> "ptr", elem |-> E]
TVariant(alts)    == [t |-> "variant", alts |-> alts, indexer |-> "Uint64"]
TEnum(max)        == [t |-> "enum", u_type |-> "Int", enum_with_max |-> TRUE, max |-> max]
TEnumNoMax        == [t |-> "enum", u_type |-> "Int", enum_with_max |-> FALSE, max |-> 0]
TNamedEnumOf(names, n) == [t |-> "named_enum", names |-> names, enumerators |-> n]
TNamedEnum(names) == TNamedEnumOf(names, Len(names))
TStruct(calls)    == [t |-> "struct", calls |-> calls]

\* a std::variant holding x as its alternative i; value.index(); the value held
Variant(i, x) == <<i, x>>
index(value)  == value[1]
held(value)   == value[2]

\* One call of the walker inside a serialization routine
CallName(name)                == [form |-> "name", name |-> name]
CallRequired(name, T)         == [form |-> "required", name |-> name, T |-> T]
CallPointer(name, T)          == [form |-> "pointer", name |-> name, T |-> T]
CallDefault(name, T, TT, d)   == [form |-> "default", name |-> name, T |-> T, TT |-> TT, def |-> d]
CallFactory(name, T, TT, d)   == [form |-> "factory", name |-> name, T |-> T, TT |-> TT, def |-> d]

resizable(T)   == T.A \in {"vector", "array_with_size"}
fillable(T)    == T.A = "std_array"
struct_like(T) == T.t = "struct"
FieldCalls(T)  == SelectSeq(T.calls, LAMBDA c : c.form # "name")
FieldNames(T)  == {FieldCalls(T)[i].name : i \in 1..Len(FieldCalls(T))}
FieldCall(T, name) ==
    FieldCalls(T)[CHOOSE i \in 1..Len(FieldCalls(T)) : FieldCalls(T)[i].name = name]

\* T{}: the value-initialised value
RECURSIVE DefaultOf(_)
DefaultOf(T) ==
    CASE T.t = "prim" ->
             (CASE T.TYPE = "Bool" -> FALSE
                [] T.TYPE \in {"Uint", "Uint64"} -> {}
                [] OTHER -> 0)
      [] T.t = "string" -> <<>>
      [] T.t = "bitset" -> {}
      [] T.t = "array" ->
             (CASE T.A = "vector" -> <<>>
                [] T.A \in {"std_array", "fixed"} -> [i \in 1..T.N |-> DefaultOf(T.elem)]
                [] T.A = "array_with_size" ->
                       [array |-> [i \in 1..T.N |-> DefaultOf(T.elem)], size |-> 0])
      [] T.t = "map" -> <<>>
      [] T.t \in {"optional", "unique_ptr", "shared_ptr", "ptr"} -> <<>>
      [] T.t = "variant" -> Variant(0, DefaultOf(T.alts[1]))
      [] T.t \in {"enum", "named_enum"} -> 0
      [] T.t = "struct" ->
             [n \in FieldNames(T) |->
                 IF FieldCall(T, n).form = "pointer" THEN <<>>
                 ELSE DefaultOf(FieldCall(T, n).T)]

\* static_cast<T>(default_value), default_value of primitive kind TT
static_cast(T, TT, d) ==
    IF T.t # "prim" \/ T.TYPE = TT THEN d
    ELSE CASE T.TYPE \in {"Uint", "Uint64"} /\ TT \in {"Int", "Int64"} ->
                  IF d >= 0 THEN BitsOf(d) ELSE (0..63) \ BitsOf(-d - 1)
           [] T.TYPE \in {"Int", "Int64"} /\ TT = "Bool" -> IF d THEN 1 ELSE 0
           [] OTHER -> d

(***************************************************************************)
(* The adapter registry, decode side: adapter<T>::get(v, value).           *)
(***************************************************************************)
RECURSIVE adapter_get(_, _, _)
RECURSIVE array_get_items(_, _, _, _)
RECURSIVE map_get_members(_, _, _, _)
RECURSIVE serialization_read(_, _, _)

\* ADAPTER(CPP_TYPE, TYPE)::get
ADAPTER_get(TYPE, v, value) ==
    IF ~IsKind(TYPE, v) THEN RetFalse(value)
    ELSE RetTrue(GetKind(TYPE, v))

\* adapter<std::string>::get
adapter_string_get(v, value) ==
    IF ~IsString(v) THEN RetFalse(value)
    ELSE RetTrue(v.s)

\* the widest bitset to_ullong() and the integer wire form serve
MaxUllongWidth == 64

Min(a, b) == IF a < b THEN a ELSE b

\* BS{ str, len }: the first min(len, N) characters, most significant first.  A
\* character other than '0' and '1' throws std::invalid_argument: anywhere in the
\* len characters with libc++, among the first min(len, N) with libstdc++
bitset_from_string(N, s) ==
    LET M == Min(Len(s), N)
        examined == IF stdlib = "libstdc++" THEN M ELSE Len(s)
    IN  IF \E i \in 1..examined : s[i] \notin {"0", "1"}
        THEN [st |-> "invalid_argument", val |-> {}, msg |-> <<>>]
        ELSE RetTrue({M - i : i \in {j \in 1..M : s[j] = "1"}})

\* BS{ unsigned long long }: the low N bits
bitset_from_ullong(N, u) == u \cap (0..(N - 1))

\* cv.to_string(): N characters, most significant first
bitset_to_string(N, value) ==
    [i \in 1..N |-> IF (N - i) \in value THEN "1" ELSE "0"]

\* adapter<bitset_like BS>::get
adapter_bitset_get(T, v, value) ==
    IF IsString(v)
    THEN LET b == bitset_from_string(T.N, v.s)
         IN  IF Left(b) THEN [b EXCEPT !.val = value] ELSE RetTrue(b.val)
    ELSE IF T.N <= MaxUllongWidth /\ IsKind("Uint64", v)
         THEN RetTrue(bitset_from_ullong(T.N, GetKind("Uint64", v)))
         ELSE RetFalse(value)

\* (size_t)type of the decoded discriminant
index_of(TYPE, type) ==
    IF TYPE \in {"Uint", "Uint64"} THEN type
    ELSE IF type >= 0 THEN BitsOf(type) ELSE (0..63) \ BitsOf(-type - 1)

\* adapter<std::variant<T...>>::load_one<N>
load_one(T, N, obj, value) ==
    LET alt_t == T.alts[N + 1]
        alt == DefaultOf(alt_t)
    IN  IF ~struct_like(alt_t)
        THEN LET dataMember == FindMember(obj, <<"v", "a", "l", "u", "e">>)
             IN  IF dataMember = 0 THEN RetFalse(value)
                 ELSE LET r == adapter_get(alt_t, obj.members[dataMember].value, alt)
                      IN  IF Left(r) THEN [r EXCEPT !.val = value]
                          ELSE IF r.st = "false" THEN RetFalse(value)
                          ELSE RetTrue(Variant(N, r.val))
        ELSE LET r == adapter_get(alt_t, obj, alt)
             IN  IF Left(r) THEN [r EXCEPT !.val = value]
                 ELSE IF r.st = "false" THEN RetFalse(value)
                 ELSE RetTrue(Variant(N, r.val))

\* a load that takes the first alternative the object fits, whatever its index says
load_first_fit(T, obj, value, idx) ==
    LET fits == {N \in 0..(Len(T.alts) - 1) : load_one(T, N, obj, value).st = "true"}
    IN  IF fits = {} THEN RetFalse(value)
        ELSE load_one(T, CHOOSE N \in fits : \A M \in fits : N <= M, obj, value)

\* adapter<std::variant<T...>>::load: ((index == N && load_one<N>(obj, value)) || ...)
load(T, obj, value, idx) ==
    IF \E N \in 0..(Len(T.alts) - 1) : idx = BitsOf(N)
    THEN load_one(T, CHOOSE N \in 0..(Len(T.alts) - 1) : idx = BitsOf(N), obj, value)
    ELSE RetFalse(value)

\* adapter<std::variant<T...>>::get
adapter_variant_get(T, v, value) ==
    IF ~IsObject(v) THEN RetFalse(value)
    ELSE LET typeMember == FindMember(v, <<"t", "y", "p", "e">>)
         IN  IF typeMember = 0 THEN RetFalse(value)
             ELSE LET type == ADAPTER_get(T.indexer, v.members[typeMember].value, 0)
                  IN  IF type.st = "false" THEN RetFalse(value)
                      ELSE load(T, v, value, index_of(T.indexer, type.val))

\* an ordinal decoder that compares nothing with Enum::max
adapter_enum_get_unbounded(T, v, value) ==
    LET underlying == ADAPTER_get(T.u_type, v, 0)
    IN  IF underlying.st = "false" THEN RetFalse(value) ELSE RetTrue(underlying.val)

\* adapter<Enum>::get, enum_names<Enum>::empty
adapter_enum_get(T, v, value) ==
    LET underlying == ADAPTER_get(T.u_type, v, 0)
    IN  IF underlying.st = "false" THEN RetFalse(value)
        ELSE IF T.enum_with_max /\ (underlying.val < 0 \/ underlying.val >= T.max)
             THEN RetFalse(value)
             ELSE RetTrue(underlying.val)

\* adapter<Enum>::convert: name_to_val is filled by emplace, the first index of a name stays
convert(T, name) ==
    IF \E i \in 1..Len(T.names) : T.names[i] = name
    THEN <<(CHOOSE i \in 1..Len(T.names) :
                /\ T.names[i] = name
                /\ \A j \in 1..(i - 1) : T.names[j] # name) - 1>>
    ELSE <<>>

\* adapter<Enum>::get, enum_names<Enum>::get_names() declared
adapter_named_enum_get(T, v, value) ==
    LET name == adapter_string_get(v, <<>>)
    IN  IF name.st = "false" THEN RetFalse(value)
        ELSE LET val == convert(T, name.val)
             IN  IF val # <<>> THEN RetTrue(val[1]) ELSE RetFalse(value)

\* array_with_size::clear
array_with_size_clear(value) == [value EXCEPT !.size = 0]

\* array_with_size::resize
array_with_size_resize(N, value, sz) ==
    IF sz > N THEN Throw(value, <<"Too large array">>)
    ELSE RetTrue([value EXCEPT !.size = sz])

\* array_with_size::size
array_with_size_size(N, value) == Min(value.size, N)

\* array_with_size::operator==: the first _size elements against the other's
array_with_size_equal(value, a) ==
    /\ value.size = a.size
    /\ \A i \in 1..value.size : value.array[i] = a.array[i]

\* value.size(), value[i] and value[i] = x of an array-like A, i from 0
array_size(T, value) ==
    IF T.A = "array_with_size" THEN array_with_size_size(T.N, value) ELSE Len(value)
array_at(T, value, i) ==
    IF T.A = "array_with_size" THEN value.array[i + 1] ELSE value[i + 1]
array_put(T, value, i, x) ==
    IF T.A = "array_with_size" THEN [value EXCEPT !.array[i + 1] = x]
    ELSE [value EXCEPT ![i + 1] = x]

\* adapter<array_like A>::get, the element loop from index i
array_get_items(T, items, i, value) ==
    IF i >= Len(items) THEN RetTrue(value)
    ELSE LET r == adapter_get(T.elem, items[i + 1], array_at(T, value, i))
             stored == array_put(T, value, i, r.val)
         IN  IF Left(r) THEN [r EXCEPT !.val = stored]
             ELSE IF r.st = "false" THEN RetFalse(stored)
             ELSE array_get_items(T, items, i + 1, stored)

\* an array decoder that keeps the elements the destination has room for
adapter_array_get_truncating(T, v, value) ==
    IF ~IsArray(v) THEN RetFalse(value)
    ELSE LET room == IF T.A = "vector" THEN Len(v.items) ELSE Min(Len(v.items), T.N)
             arr == SubSeq(v.items, 1, room)
         IN  IF T.A = "array_with_size"
             THEN array_get_items(T, arr, 0, [value EXCEPT !.size = room])
             ELSE IF T.A = "vector"
             THEN array_get_items(T, arr, 0, [i \in 1..room |-> DefaultOf(T.elem)])
             ELSE array_get_items(T, arr, 0, value)

\* adapter<array_like A>::get
adapter_array_get(T, v, value) ==
    IF ~IsArray(v) THEN RetFalse(value)
    ELSE LET arr == v.items
         IN  IF resizable(T)
             THEN IF T.A = "array_with_size"
                  THEN LET sized == array_with_size_resize(T.N, array_with_size_clear(value), Len(arr))
                       IN  IF Left(sized) THEN sized
                           ELSE array_get_items(T, arr, 0, sized.val)
                  ELSE array_get_items(T, arr, 0, [i \in 1..Len(arr) |-> DefaultOf(T.elem)])
             ELSE IF array_size(T, value) < Len(arr) THEN RetFalse(value)
                  ELSE array_get_items(T, arr, 0,
                           IF fillable(T) THEN [i \in 1..Len(value) |-> DefaultOf(T.elem)]
                           ELSE value)

\* value.insert_or_assign(key, item): a key already there takes the new item
insert_or_assign(value, key, item) == (key :> item) @@ value

\* value.emplace(key, item) of a container of unique keys: a key already there stays
emplace(value, key, item) ==
    IF key \in DOMAIN value THEN value ELSE value @@ (key :> item)

\* adapter<map_like M>::get, the member loop from member i
map_get_members(T, members, i, value) ==
    IF i > Len(members) THEN RetTrue(value)
    ELSE LET item == adapter_get(T.mapped, members[i].value, DefaultOf(T.mapped))
         IN  IF Left(item) THEN [item EXCEPT !.val = value]
             ELSE IF item.st = "false" THEN RetFalse(value)
             ELSE LET key == adapter_get(T.key, StrV(members[i].name), DefaultOf(T.key))
                  IN  IF Left(key) THEN [key EXCEPT !.val = value]
                      ELSE IF key.st = "false" THEN RetFalse(value)
                      ELSE map_get_members(T, members, i + 1,
                                           emplace(value, key.val, item.val))

\* a map decoder that leaves out value.clear()
adapter_map_get_merging(T, v, value) ==
    IF ~IsObject(v) THEN RetFalse(value)
    ELSE map_get_members(T, v.members, 1, value)

\* adapter<map_like M>::get: value.clear(), then the members in document order
adapter_map_get(T, v, value) ==
    IF ~IsObject(v) THEN RetFalse(value)
    ELSE map_get_members(T, v.members, 1, <<>>)

\* adapter<std::shared_ptr<T>>::get
adapter_shared_ptr_get(T, v, value) ==
    IF IsNull(v) THEN RetTrue(<<>>)
    ELSE LET x == adapter_get(T.elem, v, DefaultOf(T.elem))
         IN  IF Left(x) THEN [x EXCEPT !.val = value]
             ELSE IF x.st = "false" THEN RetFalse(value)
             ELSE RetTrue(<<x.val>>)

\* adapter<std::unique_ptr<T>>::get
adapter_unique_ptr_get(T, v, value) ==
    IF IsNull(v) THEN RetTrue(<<>>)
    ELSE LET x == adapter_get(T.elem, v, DefaultOf(T.elem))
         IN  IF Left(x) THEN [x EXCEPT !.val = value]
             ELSE IF x.st = "false" THEN RetFalse(value)
             ELSE RetTrue(<<x.val>>)

\* adapter<T*>::get: *value is decoded in place
adapter_ptr_get(T, v, value) ==
    IF value = <<>> THEN RetTrue(value)
    ELSE IF IsNull(v) THEN RetTrue(<<DefaultOf(T.elem)>>)
    ELSE LET r == adapter_get(T.elem, v, value[1])
         IN  [r EXCEPT !.val = <<r.val>>]

\* adapter<std::optional<T>>::get.  std::optional has reset() alone, so the
\* statement value.reset(std::move(x)) is ill-formed and no build holds a decoder
\* that engages an optional
adapter_optional_get(T, v, value) ==
    IF IsNull(v) THEN RetTrue(<<>>)
    ELSE LET x == adapter_get(T.elem, v, DefaultOf(T.elem))
         IN  IF Left(x) THEN [x EXCEPT !.val = value]
             ELSE IF x.st = "false" THEN RetFalse(value)
             ELSE [st |-> "ill_formed", val |-> value, msg |-> <<>>]

(***************************************************************************)
(* json_reader: [v |-> the object read, type_name |-> <<>> for nullptr or  *)
(* <<name>>].                                                              *)
(***************************************************************************)
\* json_reader::json_reader(value)
json_reader(value) == [v |-> value, type_name |-> <<>>]

\* json_reader::operator()(name)
json_reader_name(reader, name) == [reader EXCEPT !.type_name = <<name>>]

\* throw parse_exception(std::string(what) + name + " in type " + _type_name):
\* appending a null _type_name is undefined
field_error(reader, what, name, val) ==
    IF reader.type_name = <<>> THEN Undefined(val)
    ELSE Throw(val, <<what, name, " in type ", reader.type_name[1]>>)

\* json_reader::operator()(name, T& value)
json_reader_required(reader, name, T, value) ==
    LET member == FindMember(reader.v, name)
    IN  IF member = 0 THEN field_error(reader, "Field not found: ", name, value)
        ELSE LET r == adapter_get(T, reader.v.members[member].value, value)
             IN  IF r.st = "false"
                 THEN field_error(reader, "Cannot parse field: ", name, r.val)
                 ELSE r

\* json_reader::operator()(name, std::decay_t<T>* p_value)
json_reader_pointer(reader, name, T, p_value) ==
    IF p_value = <<>> THEN RetTrue(p_value)
    ELSE LET member == FindMember(reader.v, name)
         IN  IF member = 0 THEN field_error(reader, "Field not found: ", name, p_value)
             ELSE LET r == adapter_get(T, reader.v.members[member].value, p_value[1])
                  IN  IF r.st = "false"
                      THEN field_error(reader, "Cannot parse field: ", name, <<r.val>>)
                      ELSE [r EXCEPT !.val = <<r.val>>]

\* json_reader::operator()(name, T& value, const TT& default_value), both overloads
json_reader_default(reader, name, T, value, TT, default_value) ==
    LET member == FindMember(reader.v, name)
    IN  IF member = 0 THEN RetTrue(static_cast(T, TT, default_value))
        ELSE LET r == adapter_get(T, reader.v.members[member].value, value)
             IN  IF r.st = "false"
                 THEN field_error(reader, "Cannot parse field: ", name, r.val)
                 ELSE r

\* json_reader::operator()(name, T& value, TT default_value_maker)
json_reader_factory(reader, name, T, value, TT, default_value_maker) ==
    LET member == FindMember(reader.v, name)
    IN  IF member = 0 THEN RetTrue(static_cast(T, TT, default_value_maker))
        ELSE LET r == adapter_get(T, reader.v.members[member].value, value)
             IN  IF r.st = "false"
                 THEN field_error(reader, "Cannot parse field: ", name, r.val)
                 ELSE r

\* one field call c of a serialization routine, read mode
json_reader_call(reader, c, value) ==
    CASE c.form = "required" -> json_reader_required(reader, c.name, c.T, value)
      [] c.form = "pointer"  -> json_reader_pointer(reader, c.name, c.T, value)
      [] c.form = "default"  -> json_reader_default(reader, c.name, c.T, value, c.TT, c.def)
      [] c.form = "factory"  -> json_reader_factory(reader, c.name, c.T, value, c.TT, c.def)

\* value.serialization(reader): the calls in order, until one leaves by an exception
serialization_read(calls, reader, value) ==
    IF calls = <<>> THEN RetTrue(value)
    ELSE LET c == Head(calls)
         IN  IF c.form = "name"
             THEN serialization_read(Tail(calls), json_reader_name(reader, c.name), value)
             ELSE LET r == json_reader_call(reader, c, value[c.name])
                      stored == [value EXCEPT ![c.name] = r.val]
                  IN  IF Left(r) THEN [r EXCEPT !.val = stored]
                      ELSE serialization_read(Tail(calls), reader, stored)

\* adapter<T>::get, the primary template (a struct with a serialization routine)
adapter_struct_get(T, v, value) ==
    IF ~IsObject(v) THEN RetFalse(value)
    ELSE serialization_read(T.calls, json_reader(v), value)

adapter_get(T, v, value) ==
    CASE T.t = "prim"       -> ADAPTER_get(T.TYPE, v, value)
      [] T.t = "string"     -> adapter_string_get(v, value)
      [] T.t = "bitset"     -> adapter_bitset_get(T, v, value)
      [] T.t = "variant"    -> adapter_variant_get(T, v, value)
      [] T.t = "enum"       -> adapter_enum_get(T, v, value)
      [] T.t = "named_enum" -> adapter_named_enum_get(T, v, value)
      [] T.t = "array"      -> adapter_array_get(T, v, value)
      [] T.t = "map"        -> adapter_map_get(T, v, value)
      [] T.t = "shared_ptr" -> adapter_shared_ptr_get(T, v, value)
      [] T.t = "unique_ptr" -> adapter_unique_ptr_get(T, v, value)
      [] T.t = "ptr"        -> adapter_ptr_get(T, v, value)
      [] T.t = "optional"   -> adapter_optional_get(T, v, value)
      [] T.t = "struct"     -> adapter_struct_get(T, v, value)

(***************************************************************************)
(* The adapter registry, encode side: adapter<T>::set(a, v, value) gives   *)
(* the node v becomes.                                                     *)
(***************************************************************************)
RECURSIVE adapter_set(_, _, _)
RECURSIVE map_set_members(_, _, _, _)
RECURSIVE serialization_write(_, _, _)

\* what a node is after undefined behaviour wrote it
UndefinedV == [k |-> "undefined"]

\* ADAPTER(CPP_TYPE, TYPE)::set
ADAPTER_set(TYPE, value) == SetKind(TYPE, value)

\* adapter<std::string>::set
adapter_string_set(value) == StrV(value)

\* adapter<bitset_like BS>::set
adapter_bitset_set(T, value) ==
    IF T.N <= MaxUllongWidth THEN Uint64V(value)
    ELSE StrV(bitset_to_string(T.N, value))

\* (indexer)value.index()
to_indexer(TYPE, i) == IF TYPE \in {"Uint", "Uint64"} THEN BitsOf(i) ELSE i

\* adapter<std::variant<T...>>::set
adapter_variant_set(T, v, value) ==
    LET alt_t == T.alts[index(value) + 1]
        typeMember == ADAPTER_set(T.indexer, to_indexer(T.indexer, index(value)))
        withType == AddMember(ObjV(<<>>), <<"t", "y", "p", "e">>, typeMember)
    IN  IF struct_like(alt_t) THEN adapter_set(alt_t, withType, held(value))
        ELSE AddMember(withType, <<"v", "a", "l", "u", "e">>,
                       adapter_set(alt_t, NullV, held(value)))

\* adapter<Enum>::set, enum_names<Enum>::empty
adapter_enum_set(T, value) == ADAPTER_set(T.u_type, value)

\* adapter<Enum>::set, enum_names<Enum>::get_names() declared: get_names()[(size_t)value]
adapter_named_enum_set(T, value) ==
    IF value >= 0 /\ value < Len(T.names) THEN adapter_string_set(T.names[value + 1])
    ELSE UndefinedV

\* adapter<array_like A>::set
adapter_array_set(T, value) ==
    ArrV([i \in 1..array_size(T, value) |-> adapter_set(T.elem, NullV, array_at(T, value, i - 1))])

\* the keys of a map in the order its iterator visits them
RECURSIVE container_order(_)
container_order(keys) ==
    IF keys = {} THEN <<>>
    ELSE LET k == CHOOSE x \in keys : TRUE IN <<k>> \o container_order(keys \ {k})

\* adapter<map_like M>::set, the loop over the container from its i-th key
map_set_members(T, value, order, items) ==
    IF order = <<>> THEN items
    ELSE LET item == adapter_set(T.mapped, NullV, value[Head(order)])
             key == adapter_set(T.key, NullV, Head(order))
         IN  IF ~IsString(key) THEN UndefinedV
             ELSE map_set_members(T, value, Tail(order), AddMember(items, key.s, item))

\* adapter<map_like M>::set
adapter_map_set(T, value) ==
    map_set_members(T, value, container_order(DOMAIN value), ObjV(<<>>))

\* adapter<std::shared_ptr<T>>::set
adapter_shared_ptr_set(T, v, value) ==
    IF value = <<>> THEN NullV ELSE adapter_set(T.elem, v, value[1])

\* adapter<std::unique_ptr<T>>::set
adapter_unique_ptr_set(T, v, value) ==
    IF value = <<>> THEN NullV ELSE adapter_set(T.elem, v, value[1])

\* adapter<T*>::set
adapter_ptr_set(T, v, value) ==
    IF value = <<>> THEN NullV ELSE adapter_set(T.elem, v, value[1])

\* adapter<std::optional<T>>::set
adapter_optional_set(T, v, value) ==
    IF value = <<>> THEN NullV ELSE adapter_set(T.elem, v, value[1])

(***************************************************************************)
(* json_writer: [v |-> the object written].                                *)
(***************************************************************************)
\* json_writer::json_writer(value, allocator)
json_writer(value) == [v |-> value]

\* json_writer::operator()(name)
json_writer_name(writer, name) == writer

\* json_writer::operator()(name, const T& value)
json_writer_required(writer, name, T, value) ==
    [v |-> AddMember(writer.v, name, adapter_set(T, NullV, value))]

\* json_writer::operator()(name, const std::decay_t<T>* p_value)
json_writer_pointer(writer, name, T, p_value) ==
    IF p_value = <<>> THEN writer
    ELSE [v |-> AddMember(writer.v, name, adapter_set(T, NullV, p_value[1]))]

\* has_equal_with<T, TT>: x == y compiles for the field and the default as declared
has_equal_with(T, TT) == T.t \in {"prim", "string"}

\* value == default_value across the two types: the default is converted to the
\* common type, which for the pairs static_cast serves is the field's
equal_with(T, value, TT, default_value) == value = static_cast(T, TT, default_value)

\* json_writer::operator()(name, const T& value, TT default_value), !has_equal_with
json_writer_default_converted(writer, name, T, value, TT, default_value) ==
    IF value = static_cast(T, TT, default_value) THEN writer
    ELSE [v |-> AddMember(writer.v, name, adapter_set(T, NullV, value))]

\* json_writer::operator()(name, const T& value, TT default_value), has_equal_with
json_writer_default_equal(writer, name, T, value, TT, default_value) ==
    IF equal_with(T, value, TT, default_value) THEN writer
    ELSE [v |-> AddMember(writer.v, name, adapter_set(T, NullV, value))]

\* a defaulted write that never compares: the member is always added
json_writer_default_always(writer, name, T, value, TT, default_value) ==
    [v |-> AddMember(writer.v, name, adapter_set(T, NullV, value))]

\* the overload a call (name, value, default_value) resolves to
json_writer_default(writer, name, T, value, TT, default_value) ==
    IF has_equal_with(T, TT)
    THEN json_writer_default_equal(writer, name, T, value, TT, default_value)
    ELSE json_writer_default_converted(writer, name, T, value, TT, default_value)

\* json_writer::operator()(name, const T& value, TT default_value_maker)
json_writer_factory(writer, name, T, value, TT, default_value_maker) ==
    json_writer_default(writer, name, T, value, TT, default_value_maker)

\* one field call c of a serialization routine, write mode
json_writer_call(writer, c, value) ==
    CASE c.form = "required" -> json_writer_required(writer, c.name, c.T, value)
      [] c.form = "pointer"  -> json_writer_pointer(writer, c.name, c.T, value)
      [] c.form = "default"  -> json_writer_default(writer, c.name, c.T, value, c.TT, c.def)
      [] c.form = "factory"  -> json_writer_factory(writer, c.name, c.T, value, c.TT, c.def)

\* mvalue.serialization(writer)
serialization_write(calls, writer, value) ==
    IF calls = <<>> THEN writer
    ELSE LET c == Head(calls)
         IN  IF c.form = "name"
             THEN serialization_write(Tail(calls), json_writer_name(writer, c.name), value)
             ELSE serialization_write(Tail(calls),
                                      json_writer_call(writer, c, value[c.name]), value)

\* a struct encoder that starts its object anew whatever v holds
adapter_struct_set_anew(T, v, value) ==
    serialization_write(T.calls, json_writer(ObjV(<<>>)), value).v

\* adapter<T>::set, the primary template
adapter_struct_set(T, v, value) ==
    serialization_write(T.calls, json_writer(IF ~IsObject(v) THEN ObjV(<<>>) ELSE v), value).v

adapter_set(T, v, value) ==
    CASE T.t = "prim"       -> ADAPTER_set(T.TYPE, value)
      [] T.t = "string"     -> adapter_string_set(value)
      [] T.t = "bitset"     -> adapter_bitset_set(T, value)
      [] T.t = "variant"    -> adapter_variant_set(T, v, value)
      [] T.t = "enum"       -> adapter_enum_set(T, value)
      [] T.t = "named_enum" -> adapter_named_enum_set(T, value)
      [] T.t = "array"      -> adapter_array_set(T, value)
      [] T.t = "map"        -> adapter_map_set(T, value)
      [] T.t = "shared_ptr" -> adapter_shared_ptr_set(T, v, value)
      [] T.t = "unique_ptr" -> adapter_unique_ptr_set(T, v, value)
      [] T.t = "ptr"        -> adapter_ptr_set(T, v, value)
      [] T.t = "optional"   -> adapter_optional_set(T, v, value)
      [] T.t = "struct"     -> adapter_struct_set(T, v, value)

(***************************************************************************)
(* The top-level calls.  A text is the node it parses to, or SyntaxError.  *)
(***************************************************************************)
SyntaxError == [k |-> "syntax_error"]

\* loads<T>(str), result starting from whatever `T result;` holds
loads(T, doc, result) ==
    IF doc = SyntaxError THEN Throw(result, <<"Parse error: ">>)
    ELSE LET r == adapter_get(T, doc, result)
         IN  IF r.st = "false" THEN Throw(r.val, <<"Cannot convert the value">>)
             ELSE r

\* load<T>(str, result)
load_into(T, doc, result) ==
    IF doc = SyntaxError THEN Throw(result, <<"Parse error: ">>)
    ELSE LET r == adapter_get(T, doc, result)
         IN  IF r.st = "false" THEN Throw(r.val, <<"Cannot convert the value">>)
             ELSE r

\* dumps(value) / dump(str, value): the document written
dumps(T, value) == adapter_set(T, NullV, value)

(***************************************************************************)
(* The initializer: init_reader walks a serialization routine without a    *)
(* document.                                                               *)
(***************************************************************************)
RECURSIVE serialization_init(_, _)

\* io_supported<T, init_reader>: value.serialization(io) compiles
io_supported(T) == T.t = "struct"

\* an initializer that goes into no field
init_reader_required_flat(T, value) == value

\* init_reader::operator()(const char*, auto&) and, chosen for a field that is
\* io_supported, init_reader::operator()(const char*, io_supported auto& value)
init_reader_required(T, value) ==
    IF io_supported(T) THEN serialization_init(T.calls, value) ELSE value

\* init_reader::operator()(const char*, T& value, const TT& default_value)
init_reader_default(T, value, TT, default_value) == static_cast(T, TT, default_value)

\* init_reader::operator()(const char*, T& value, TT default_value_maker)
init_reader_factory(T, value, TT, default_value_maker) ==
    static_cast(T, TT, default_value_maker)

\* one field call c of a serialization routine handed an init_reader; a pointer
\* is an object like any other to operator()(const char*, auto&)
init_reader_call(c, value) ==
    CASE c.form = "required" -> init_reader_required(c.T, value)
      [] c.form = "pointer"  -> value
      [] c.form = "default"  -> init_reader_default(c.T, value, c.TT, c.def)
      [] c.form = "factory"  -> init_reader_factory(c.T, value, c.TT, c.def)

\* value.serialization(reader), reader an init_reader: the calls in order;
\* operator()(const char*) does nothing
serialization_init(calls, value) ==
    IF calls = <<>> THEN value
    ELSE LET c == Head(calls)
         IN  IF c.form = "name" THEN serialization_init(Tail(calls), value)
             ELSE serialization_init(Tail(calls),
                      [value EXCEPT ![c.name] = init_reader_call(c, value[c.name])])

\* init(value)
init(T, value) == serialization_init(T.calls, value)

(***************************************************************************)
(* The types the model converts, their representative values, and the      *)
(* documents offered to their decoders.                                    *)
(***************************************************************************)
\* the largest int among the values, the longest vector, the capacity of the fixed arrays
MaxInt == 1
MaxLen == 2
Capacity == 2
MaxMembers == 2

NameX     == <<"x">>
NameY     == <<"y">>
NameId    == <<"i", "d">>
NameType  == <<"t", "y", "p", "e">>
NameValue == <<"v", "a", "l", "u", "e">>
EnumNames == << <<"A">>, <<"B">>, <<"C">> >>

\* struct Point { int x; int y; } with y defaulted, declaring its type name
Point == TStruct(<<CallName(<<"P", "o", "i", "n", "t">>), CallRequired(NameX, TInt),
                   CallDefault(NameY, TInt, "Int", 1)>>)
\* struct Id { int id; } whose routine declares no type name
Id == TStruct(<<CallRequired(NameId, TInt)>>)
\* struct Nested { Id x; }
Nested == TStruct(<<CallName(<<"N", "e", "s", "t", "e", "d">>), CallRequired(NameX, Id)>>)
\* struct Line { Point x; int y; int id; } with y defaulted by a factory that
\* returns true
Line == TStruct(<<CallName(<<"L", "i", "n", "e">>), CallRequired(NameX, Point),
                  CallFactory(NameY, TInt, "Bool", TRUE), CallRequired(NameId, TInt)>>)

Types == <<
    TInt, TBool, TUint64, TDouble, TString,
    TBitset(2), TBitset(64), TBitset(65),
    TVector(TInt), TStdArray(TInt, Capacity), TArrayWithSize(TInt, Capacity),
    TFixed(TInt, Capacity), TVector(TOptional(TInt)),
    TMap(TString, TInt),
    TOptional(TInt), TUniquePtr(TInt), TSharedPtr(TString),
    TVariant(<<TInt, TString, Point>>),
    TEnum(3), TEnumNoMax, TNamedEnum(EnumNames),
    Point, Id, Nested,
    TNamedEnumOf(EnumNames, Len(EnumNames) + 1),
    Line >>

\* sequences over S of length at most n
RECURSIVE SeqsUpTo(_, _)
SeqsUpTo(S, n) ==
    IF n = 0 THEN {<<>>}
    ELSE LET shorter == SeqsUpTo(S, n - 1)
         IN  shorter \cup {Append(q, x) : q \in {r \in shorter : Len(r) = n - 1}, x \in S}

\* functions from the subsets of K into S
MapsOver(K, S) == UNION {[D -> S] : D \in SUBSET K}

RECURSIVE Values(_)
RECURSIVE StructValues(_)
Values(T) ==
    CASE T.t = "prim" ->
             (CASE T.TYPE = "Bool" -> BOOLEAN
                [] T.TYPE \in {"Uint", "Uint64"} -> {BitsOf(n) : n \in 0..MaxInt} \cup {{63}}
                [] T.TYPE \in {"Float", "Double"} -> 0..MaxInt
                [] OTHER -> 0..MaxInt)
      [] T.t = "string" -> {<<>>, <<"x">>, <<"0", "1">>}
      [] T.t = "bitset" -> SUBSET {0, 1, T.N - 1}
      [] T.t = "array" ->
             (CASE T.A = "vector" -> SeqsUpTo(Values(T.elem), MaxLen)
                [] T.A \in {"std_array", "fixed"} ->
                       {q \in SeqsUpTo(Values(T.elem), T.N) : Len(q) = T.N}
                [] T.A = "array_with_size" ->
                       {[array |-> q, size |-> n] :
                           q \in {r \in SeqsUpTo(Values(T.elem), T.N) : Len(r) = T.N},
                           n \in 0..T.N})
      [] T.t = "map" -> MapsOver({NameX, NameY}, 0..MaxInt)
      [] T.t \in {"optional", "unique_ptr", "shared_ptr", "ptr"} ->
             {<<>>} \cup {<<x>> : x \in Values(T.elem)}
      [] T.t = "variant" ->
             UNION {{Variant(i - 1, x) : x \in Values(T.alts[i])} :
                       i \in 1..Len(T.alts)}
      [] T.t = "enum" -> IF T.enum_with_max THEN 0..(T.max - 1) ELSE -1..MaxInt
      [] T.t = "named_enum" -> 0..(T.enumerators - 1)
      [] T.t = "struct" -> StructValues(FieldCalls(T))

\* the values of a struct whose routine makes these field calls
StructValues(calls) ==
    IF calls = <<>> THEN {<<>>}
    ELSE LET c == Head(calls)
             own == IF c.form = "pointer" THEN {<<>>} \cup {<<x>> : x \in Values(c.T)}
                    ELSE Values(c.T)
         IN  {(c.name :> x) @@ f : x \in own, f \in StructValues(Tail(calls))}

\* nodes of every kind, none of them made for the type that decodes them
Junk == {NullV, BoolV(TRUE), IntV(-1), IntV(3), DoubleV(1), StrV(<<"x">>), StrV(<<"B">>),
         ArrV(<<>>), ObjV(<<>>), SyntaxError}

Encodings(T) == {dumps(T, x) : x \in Values(T)}

\* the documents an element or a member of type E is offered: one it decodes, one
\* it does not; and a second one it decodes
ElemDocs(E) == {dumps(E, DefaultOf(E)), IF E.t = "string" THEN IntV(0) ELSE StrV(<<"x">>)}
MemberDocs(E) == ElemDocs(E) \cup {dumps(E, CHOOSE x \in Values(E) : x # DefaultOf(E))}

Crafted(T) ==
    CASE T.t = "bitset" ->
             {StrV(q) : q \in SeqsUpTo({"0", "1", "x"}, MaxLen + 1)}
                 \cup {StrV(bitset_to_string(T.N, x)) : x \in Values(T)}
                 \cup {Uint64V(x \cap (0..63)) : x \in Values(T)}
      [] T.t = "array" ->
             {ArrV(q) : q \in SeqsUpTo(ElemDocs(T.elem),
                                       (IF T.A = "vector" THEN MaxLen ELSE T.N) + 1)}
      [] T.t = "map" ->
             {ObjV(q) : q \in SeqsUpTo({Member(n, d) : n \in {NameX, NameY},
                                                       d \in MemberDocs(T.mapped)}, MaxMembers)}
      [] T.t = "variant" ->
             {ObjV(q) : q \in SeqsUpTo(
                 {Member(NameType, d) :
                     d \in {IntV(i) : i \in -1..Len(T.alts)} \cup {StrV(<<"0">>)}}
                   \cup {Member(NameValue, d) : d \in {IntV(0), StrV(<<"x">>)}}
                   \cup {Member(NameX, IntV(1))}, MaxMembers)}
      [] T.t = "enum" ->
             {IntV(i) : i \in -1..((IF T.enum_with_max THEN T.max ELSE MaxInt) + 1)}
                 \cup {Uint64V({31}), Uint64V({63})}
      [] T.t = "named_enum" ->
             {StrV(q) : q \in SeqsUpTo({"A", "B", "C", "Z"}, MaxLen)}
      [] T.t = "struct" ->
             {ObjV(q) : q \in SeqsUpTo(
                 UNION {{Member(n, d) : d \in MemberDocs(FieldCall(T, n).T)} : n \in FieldNames(T)},
                 MaxMembers)}
      [] OTHER -> {}

Docs(T) == Encodings(T) \cup Crafted(T) \cup Junk

(***************************************************************************)
(* The program: one object of one of the types, and the top-level calls    *)
(* made on it.                                                             *)
(***************************************************************************)
VARIABLES
    ty,        \* the type converted, an index of Types
    value,     \* the caller's object: what dumps encodes, what load(str, result) fills
    text,      \* the text the caller holds, as the document it parses to
    doc,       \* the document last written or read
    src,       \* "dumps" when doc was written from value, "text" when it was the text
    op,        \* the last call: "none", "dumps", "loads", "load", "init"
    status,    \* how it ended: "none", "ok", "parse_exception", "invalid_argument",
               \* "terminated", "ill_formed" (the call has no build)
    what,      \* the reason an exception carried
    returned,  \* <<x>> when loads returned x, <<>> otherwise
    before,    \* value as it was when the last call was made
    mode,      \* the walker in use on dto: "none", "write", "read"
    writer,    \* the json_writer
    reader,    \* the json_reader
    dto,       \* the fields the walker is handed: x an int, p an int*
    visited,   \* the fields the writing traversal has passed, each with its call
    written,   \* dto as the writing traversal saw it, once its object is read back
    call,      \* the walker's last call
    ended,     \* how it ended: "none", "ok", "parse_exception", "terminated"
    reason,    \* the reason its exception carried
    prior      \* [v |-> the writer's object, dto |-> dto] as the last call found them

api    == <<stdlib, ty, value, text, doc, src, op, status, what, returned, before>>
walker == <<mode, writer, reader, dto, visited, written, call, ended, reason, prior>>
vars   == <<api, walker>>

T0 == Types[ty]

\* what undefined behaviour comes to: the call may end the process or go on to throw
Outcomes(r) ==
    IF r.st = "undefined" THEN {"terminated", "parse_exception"}
    ELSE IF r.st = "true" THEN {"ok"}
    ELSE {r.st}

\* `T result;` compiles: an array_with_size is built from the array and the size
\* it refers to, and from nothing else
default_constructible(T) == ~(T.t = "array" /\ T.A = "array_with_size")

\* what `T result;` may hold before it is decoded into: what its default constructor
\* leaves when its class has one, anything otherwise
Indeterminate(T) ==
    IF T.t \in {"string", "bitset", "map", "optional", "unique_ptr", "shared_ptr", "variant"}
          \/ (T.t = "array" /\ T.A = "vector")
    THEN {DefaultOf(T)}
    ELSE {DefaultOf(T)} \cup {CHOOSE x \in Values(T) : x # DefaultOf(T)}

NameP == <<"p">>
NameDto == <<"D", "t", "o">>
NoCall == [op |-> "none", name |-> <<>>, null |-> FALSE, def |-> 0]

\* no walker is in use
NoWalker ==
    /\ mode = "none"
    /\ writer = json_writer(NullV)
    /\ reader = json_reader(NullV)
    /\ dto = <<>>
    /\ visited = <<>>
    /\ written = <<>>
    /\ call = NoCall
    /\ ended = "none"
    /\ reason = <<>>
    /\ prior = <<>>

\* an object of one of the types S, and a text made for its type or not
InitTypes(S, crafted) ==
    /\ NoWalker
    /\ stdlib \in Stdlibs
    /\ ty \in S
    /\ value \in Values(Types[ty])
    /\ text \in IF crafted THEN Docs(Types[ty]) ELSE Junk
    /\ doc = NullV
    /\ src = "none"
    /\ op = "none"
    /\ status = "none"
    /\ what = <<>>
    /\ returned = <<>>
    /\ before = value

TypesOf(kinds) == {i \in 1..Len(Types) : Types[i].t \in kinds}

Init == InitTypes(1..Len(Types), FALSE)

\* the process has not been ended
Running == status # "terminated"

\* dumps(value)
Dumps ==
    /\ Running
    /\ doc' = dumps(T0, value)
    /\ src' = "dumps"
    /\ op' = "dumps"
    /\ status' \in IF doc' = UndefinedV THEN {"terminated", "ok"} ELSE {"ok"}
    /\ what' = <<>>
    /\ returned' = <<>>
    /\ before' = value
    /\ UNCHANGED <<stdlib, ty, value, text, walker>>

\* loads<T>(str), and load<T>(str) which returns its own `T result;` the same way,
\* of the caller's text or of the document dumps wrote
Loads ==
    /\ Running
    /\ default_constructible(T0)
    /\ \E from \in {"text"} \cup (IF src = "dumps" THEN {"dumps"} ELSE {}),
       result \in Indeterminate(T0) :
        LET d == IF from = "text" THEN text ELSE doc
            r == loads(T0, d, result)
        IN  /\ doc' = d
            /\ src' = from
            /\ op' = "loads"
            /\ status' \in Outcomes(r)
            /\ what' = r.msg
            /\ returned' = IF r.st = "true" THEN <<r.val>> ELSE <<>>
            /\ before' = value
            /\ UNCHANGED <<stdlib, ty, value, text, walker>>

\* load<T>(str, result) on the caller's object
Load ==
    /\ Running
    /\ \E from \in {"text"} \cup (IF src = "dumps" THEN {"dumps"} ELSE {}) :
        LET d == IF from = "text" THEN text ELSE doc
            r == load_into(T0, d, value)
        IN  /\ doc' = d
            /\ src' = from
            /\ op' = "load"
            /\ status' \in Outcomes(r)
            /\ what' = r.msg
            /\ returned' = <<>>
            /\ before' = value
            /\ value' = r.val
            /\ UNCHANGED <<stdlib, ty, text, walker>>

Next == Dumps \/ Loads \/ Load

\* init(value) on the caller's object
Initialize ==
    /\ Running
    /\ io_supported(T0)
    /\ value' = init(T0, value)
    /\ src' = "none"
    /\ op' = "init"
    /\ status' = "ok"
    /\ what' = <<>>
    /\ returned' = <<>>
    /\ before' = value
    /\ UNCHANGED <<stdlib, ty, text, doc, walker>>

NextInit == Next \/ Initialize

Spec == Init /\ [][Next]_vars

\* the same program on the array-like types, the map, the variant, the bitsets and
\* the structs, each with the texts made for it
SpecArray   == InitTypes(TypesOf({"array"}), TRUE) /\ [][Next]_vars
SpecMap     == InitTypes(TypesOf({"map"}), TRUE) /\ [][Next]_vars
SpecVariant == InitTypes(TypesOf({"variant"}), TRUE) /\ [][Next]_vars
SpecBitset  == InitTypes(TypesOf({"bitset"}), TRUE) /\ [][Next]_vars
SpecStruct  == InitTypes(TypesOf({"struct"}), TRUE) /\ [][Next]_vars
SpecEnum    == InitTypes(TypesOf({"enum", "named_enum"}), TRUE) /\ [][Next]_vars
SpecInit    == InitTypes(TypesOf({"struct"}), FALSE) /\ [][NextInit]_vars

(***************************************************************************)
(* The walkers, call by call: a json_writer filling an object from dto,    *)
(* and a json_reader filling dto from an object.                           *)
(***************************************************************************)
FieldT(name) == IF name = NameP THEN TPtr(TInt) ELSE TInt

DtoValues == {(NameX :> x) @@ (NameP :> q) : x \in Values(TInt), q \in Values(TPtr(TInt))}

\* the objects a reader is given
WalkerDocs ==
    {ObjV(q) : q \in SeqsUpTo({Member(n, d) : n \in {NameX, NameP},
                                              d \in {IntV(1), NullV, StrV(<<"x">>)}},
                              MaxMembers)}

NoApi ==
    /\ stdlib = "libstdc++"
    /\ ty = 1
    /\ value = 0
    /\ text = NullV
    /\ doc = NullV
    /\ src = "none"
    /\ op = "none"
    /\ status = "none"
    /\ what = <<>>
    /\ returned = <<>>
    /\ before = 0

InitWalker ==
    /\ NoApi
    /\ mode \in {"write", "read"}
    /\ writer = json_writer(ObjV(<<>>))
    /\ reader \in IF mode = "read" THEN {json_reader(o) : o \in WalkerDocs}
                  ELSE {json_reader(NullV)}
    /\ dto \in DtoValues
    /\ visited = <<>>
    /\ written = <<>>
    /\ call = NoCall
    /\ ended = "none"
    /\ reason = <<>>
    /\ prior = [v |-> writer.v, dto |-> dto]

\* a call of the writer on field name: the routine passes each field once
Wrote(c, w) ==
    /\ mode = "write"
    /\ c.name \notin DOMAIN visited
    /\ writer' = w
    /\ visited' = visited @@ (c.name :> c)
    /\ call' = c
    /\ ended' = "ok"
    /\ reason' = <<>>
    /\ prior' = [v |-> writer.v, dto |-> dto]
    /\ UNCHANGED <<mode, reader, dto, written, api>>

\* json_writer::operator()(name, value)
WriteRequired ==
    \E name \in {NameX, NameP} :
        Wrote([op |-> "required", name |-> name, null |-> FALSE, def |-> 0],
              json_writer_required(writer, name, FieldT(name), dto[name]))

\* json_writer::operator()(name, p_value), p_value null or &dto.x
WritePointer ==
    \E null \in BOOLEAN :
        Wrote([op |-> "pointer", name |-> NameX, null |-> null, def |-> 0],
              json_writer_pointer(writer, NameX, TInt, IF null THEN <<>> ELSE <<dto[NameX]>>))

\* json_writer::operator()(name, value, default_value)
WriteDefault ==
    \E d \in 0..MaxInt :
        Wrote([op |-> "default", name |-> NameX, null |-> FALSE, def |-> d],
              json_writer_default(writer, NameX, TInt, dto[NameX], "Int", d))

\* json_writer::operator()(name, value, default_value_maker)
WriteFactory ==
    \E d \in 0..MaxInt :
        Wrote([op |-> "factory", name |-> NameX, null |-> FALSE, def |-> d],
              json_writer_factory(writer, NameX, TInt, dto[NameX], "Int", d))

\* the object written is read back into an object of its own
ReadBack ==
    /\ mode = "write"
    /\ mode' = "read"
    /\ reader' = json_reader(writer.v)
    /\ written' = dto
    /\ dto' \in DtoValues
    /\ call' = NoCall
    /\ ended' = "none"
    /\ reason' = <<>>
    /\ prior' = [v |-> writer.v, dto |-> dto']
    /\ UNCHANGED <<writer, visited, api>>

\* json_reader::operator()(name)
ReadName ==
    /\ mode = "read"
    /\ ended \in {"none", "ok"}
    /\ reader' = json_reader_name(reader, NameDto)
    /\ call' = [op |-> "name", name |-> NameDto, null |-> FALSE, def |-> 0]
    /\ ended' = "ok"
    /\ reason' = <<>>
    /\ prior' = [v |-> writer.v, dto |-> dto]
    /\ UNCHANGED <<mode, writer, dto, visited, written, api>>

\* a call of the reader on field name that ends as r does; an exception ends the traversal
Read(c, r, stored) ==
    /\ mode = "read"
    /\ ended \in {"none", "ok"}
    /\ dto' = [dto EXCEPT ![c.name] = stored]
    /\ call' = c
    /\ ended' \in Outcomes(r)
    /\ reason' = r.msg
    /\ prior' = [v |-> writer.v, dto |-> dto]
    /\ UNCHANGED <<mode, writer, reader, visited, written, api>>

\* json_reader::operator()(name, value)
ReadRequired ==
    \E name \in {NameX, NameP} :
        LET r == json_reader_required(reader, name, FieldT(name), dto[name])
        IN  Read([op |-> "required", name |-> name, null |-> FALSE, def |-> 0], r, r.val)

\* json_reader::operator()(name, p_value), p_value null or &dto.x
ReadPointer ==
    \E null \in BOOLEAN :
        LET r == json_reader_pointer(reader, NameX, TInt, IF null THEN <<>> ELSE <<dto[NameX]>>)
        IN  Read([op |-> "pointer", name |-> NameX, null |-> null, def |-> 0], r,
                 IF null THEN dto[NameX] ELSE r.val[1])

\* json_reader::operator()(name, value, default_value)
ReadDefault ==
    \E d \in 0..MaxInt :
        LET r == json_reader_default(reader, NameX, TInt, dto[NameX], "Int", d)
        IN  Read([op |-> "default", name |-> NameX, null |-> FALSE, def |-> d], r, r.val)

\* json_reader::operator()(name, value, default_value_maker)
ReadFactory ==
    \E d \in 0..MaxInt :
        LET r == json_reader_factory(reader, NameX, TInt, dto[NameX], "Int", d)
        IN  Read([op |-> "factory", name |-> NameX, null |-> FALSE, def |-> d], r, r.val)

NextWalker ==
    \/ WriteRequired \/ WritePointer \/ WriteDefault \/ WriteFactory \/ ReadBack
    \/ ReadName \/ ReadRequired \/ ReadPointer \/ ReadDefault \/ ReadFactory

SpecWalker == InitWalker /\ [][NextWalker]_vars

(***************************************************************************)
(* Properties.                                                             *)
(***************************************************************************)
\* the walker's last call was a read of a field by one of these forms
ReadBy(forms) == mode = "read" /\ call.op \in forms /\ ended # "none"

\* the member the last read looked for: its index in the object, 0 when absent
Sought == FindMember(reader.v, call.name)

\* C1: reading a required field whose member is absent always ends in a
\* parse_exception whose reason is "Field not found: " followed by the field's
\* name; reading a defaulted field (by value or by factory) whose member is absent
\* never fails and leaves the field holding exactly the default; a defaulted read
\* fails only when the member is present and the field's adapter rejects it.
C1_AbsentMember ==
    /\ (ReadBy({"required"}) /\ Sought = 0) =>
           /\ ended = "parse_exception"
           /\ Len(reason) >= 2
           /\ reason[1] = "Field not found: "
           /\ reason[2] = call.name
    /\ (ReadBy({"default", "factory"}) /\ Sought = 0) =>
           /\ ended = "ok"
           /\ dto[call.name] = call.def
    /\ (ReadBy({"default", "factory"}) /\ ended # "ok") =>
           /\ Sought # 0
           /\ ~IsKind("Int", reader.v.members[Sought].value)

\* C1, as far as it reaches: the same once the routine has declared its type name
C1_AbsentMemberOfNamedType ==
    reader.type_name # <<>> => C1_AbsentMember

\* a required field is read from an object without its member, by a routine that
\* declared no type name
C1_RequiredAbsentUnnamed ==
    /\ ReadBy({"required"})
    /\ Sought = 0
    /\ reader.type_name = <<>>

\* the last top-level call was a decode
Decoded == op \in {"loads", "load"}

\* what the caller holds after the decode: the object returned, or its own
Result == IF op = "loads" THEN returned[1] ELSE value

\* x == y as the type compares
equal(T, x, y) ==
    IF T.t = "array" /\ T.A = "array_with_size" THEN array_with_size_equal(x, y)
    ELSE x = y

\* C2: round trip: for every shape category and each representative value x,
\* decoding the node that encoding x produced succeeds and yields a value equal
\* to x.
C2_RoundTrip ==
    (Decoded /\ src = "dumps") =>
        /\ status = "ok"
        /\ IF op = "loads" THEN returned # <<>> /\ equal(T0, returned[1], value)
           ELSE equal(T0, value, before)

\* a type whose decoding passes through the std::optional adapter
ThroughOptional(T) == T.t = "optional" \/ (T.t = "array" /\ T.elem.t = "optional")

\* an enum with an enumerator its name table has no name for
Unnamed(T) == T.t = "named_enum" /\ T.enumerators > Len(T.names)

\* C2, as far as it reaches: the round trip of every category but the optional,
\* a name table given for every enumerator
C2_RoundTripButOptional ==
    (~ThroughOptional(T0) /\ ~Unnamed(T0)) => C2_RoundTrip

\* a present optional was encoded and the node decoded
C2_PresentOptionalDecoded ==
    /\ Decoded
    /\ src = "dumps"
    /\ T0.t = "optional"
    /\ before # <<>>

\* the members of object v named name
Count(v, name) == Cardinality({i \in 1..Len(v.members) : v.members[i].name = name})

\* the walker's last call was a write of a field by one of these forms
WroteBy(forms) == mode = "write" /\ call.op \in forms

\* C3: idempotence of defaulting: writing a defaulted field (by value or by
\* factory) adds no member when the field equals the default and exactly one
\* member of that name otherwise; reading an object without the member sets the
\* field to exactly the default; so a field written and read back with the same
\* default holds the value it had, whether or not its member was omitted.
C3_Defaulting ==
    /\ WroteBy({"default", "factory"}) =>
           IF dto[call.name] = call.def THEN writer.v = prior.v
           ELSE /\ Len(writer.v.members) = Len(prior.v.members) + 1
                /\ Count(writer.v, call.name) = 1
                /\ writer.v.members[FindMember(writer.v, call.name)].value
                       = IntV(dto[call.name])
    /\ (ReadBy({"default", "factory"}) /\ Sought = 0) =>
           /\ ended = "ok"
           /\ dto[call.name] = call.def
    /\ (/\ ReadBy({"default", "factory"})
        /\ call.name \in DOMAIN visited
        /\ visited[call.name].op \in {"default", "factory"}
        /\ visited[call.name].def = call.def) =>
           /\ ended = "ok"
           /\ dto[call.name] = written[call.name]

\* a field equal to its default was written, its member omitted, and read back
C3_OmittedAndRestored ==
    /\ ReadBy({"default", "factory"})
    /\ call.name \in DOMAIN visited
    /\ visited[call.name].op \in {"default", "factory"}
    /\ visited[call.name].def = call.def
    /\ Sought = 0
    /\ written[call.name] = call.def
    /\ prior.dto[call.name] # call.def
    /\ dto[call.name] = call.def

\* node v is one the adapter of T takes, by the node's kind alone
RECURSIVE Decodable(_, _)
Decodable(T, v) ==
    CASE T.t = "prim"   -> IsKind(T.TYPE, v)
      [] T.t = "string" -> IsString(v)
      [] T.t = "struct" ->
             /\ IsObject(v)
             /\ \A name \in FieldNames(T) :
                    LET member == FindMember(v, name)
                    IN  IF member = 0 THEN FieldCall(T, name).form \in {"default", "factory"}
                        ELSE Decodable(FieldCall(T, name).T, v.members[member].value)
      [] OTHER -> FALSE

\* the last call decoded an array into a destination of fixed capacity
FixedCapacityDecoded == Decoded /\ T0.t = "array" /\ T0.A # "vector" /\ IsArray(doc)

\* C4: capacity enforcement: decoding an array longer than the capacity N of a
\* fixed-capacity destination fails, and gives the caller no result holding a
\* prefix; decoding an array of at most N decodable elements succeeds; for the
\* containers that cannot be resized and for array_with_size alike.
C4_Capacity ==
    FixedCapacityDecoded =>
        /\ Len(doc.items) > T0.N => (status = "parse_exception" /\ returned = <<>>)
        /\ (/\ Len(doc.items) <= T0.N
            /\ \A i \in 1..Len(doc.items) : Decodable(T0.elem, doc.items[i])) =>
               status = "ok"

\* an array one longer than the capacity of an array_with_size was refused
C4_TooLargeRefused ==
    /\ FixedCapacityDecoded
    /\ T0.A = "array_with_size"
    /\ Len(doc.items) = T0.N + 1
    /\ \A i \in 1..Len(doc.items) : Decodable(T0.elem, doc.items[i])
    /\ status = "parse_exception"
    /\ what = <<"Too large array">>

\* the names of the members of object v
Names(v) == {v.members[i].name : i \in 1..Len(v.members)}

\* the last call decoded an object into a map and succeeded
MapDecoded == Decoded /\ T0.t = "map" /\ IsObject(doc) /\ status = "ok"

\* C5: after a successful decode of an object into a map, the map's keys are
\* exactly the keys of the object's members, whatever the map held before; a key
\* it held that the object lacks is gone.
C5_MapCleared ==
    MapDecoded => DOMAIN Result = Names(doc)

\* a map holding a key was decoded in place from an object without it
C5_PriorKeyGone ==
    /\ MapDecoded
    /\ op = "load"
    /\ \E key \in DOMAIN before : key \notin Names(doc) /\ key \notin DOMAIN value
    /\ Names(doc) # {}

\* the "type" member of the document, 0 when it has none
TypeMember == FindMember(doc, NameType)

\* the document's discriminant names one of the alternatives
ValidIndex ==
    /\ IsObject(doc)
    /\ TypeMember # 0
    /\ IsKind("Uint64", doc.members[TypeMember].value)
    /\ \E i \in 0..(Len(T0.alts) - 1) :
           GetKind("Uint64", doc.members[TypeMember].value) = BitsOf(i)

\* the alternative it names
Index == ToNat(GetKind("Uint64", doc.members[TypeMember].value))

\* the document carries what alternative i decodes: a struct's fields in the
\* object itself, anything else as the member "value"
Carries(i) ==
    LET alt_t == T0.alts[i + 1]
        payload == FindMember(doc, NameValue)
    IN  IF struct_like(alt_t) THEN Decodable(alt_t, doc)
        ELSE payload # 0 /\ Decodable(alt_t, doc.members[payload].value)

\* C6: decoding a node into a variant of k alternatives fails, selecting no
\* alternative and leaving the destination as it was, when the node is not an
\* object, has no "type" member, has a "type" the indexer does not decode, or
\* has an index outside 0..k-1; with a valid index i only alternative i is
\* tried: the decode succeeds exactly when the node carries alternative i, and
\* then holds alternative i.
C6_Discriminant ==
    (Decoded /\ T0.t = "variant") =>
        IF ~ValidIndex
        THEN /\ status = "parse_exception"
             /\ returned = <<>>
             /\ value = before
        ELSE /\ status = "ok" <=> Carries(Index)
             /\ status = "ok" => index(Result) = Index

\* an object whose index is one past the last alternative, carrying a value the
\* first alternative decodes, was refused
C6_IndexOutOfRange ==
    /\ Decoded
    /\ T0.t = "variant"
    /\ IsObject(doc)
    /\ TypeMember # 0
    /\ doc.members[TypeMember].value = IntV(Len(T0.alts))
    /\ Carries(0)
    /\ status = "parse_exception"
    /\ value = before

\* the first and the last member of object v named name
FirstNamed(v, name) == CHOOSE i \in 1..Len(v.members) :
    v.members[i].name = name /\ \A j \in 1..(i - 1) : v.members[j].name # name
LastNamed(v, name) == CHOOSE i \in 1..Len(v.members) :
    v.members[i].name = name /\ \A j \in (i + 1)..Len(v.members) : v.members[j].name # name

\* C7 as stated: after a successful decode of an object into a map, a key that
\* several members name maps to the value of the last of them in document order.
C7_LastWriteWins ==
    MapDecoded =>
        \A key \in DOMAIN Result :
            Result[key] = GetKind("Int", doc.members[LastNamed(doc, key)].value)

\* C7: after a successful decode of an object into a map, a key that several
\* members name maps to the value of the first of them in document order.
C7_FirstWriteWins ==
    MapDecoded =>
        \A key \in DOMAIN Result :
            Result[key] = GetKind("Int", doc.members[FirstNamed(doc, key)].value)

\* an object with two members of one name and different values was decoded
C7_DuplicateKeyDecoded ==
    /\ MapDecoded
    /\ \E i, j \in 1..Len(doc.members) :
           /\ i < j
           /\ doc.members[i].name = doc.members[j].name
           /\ doc.members[i].value # doc.members[j].value

\* C8: decode is all-or-nothing: a decode that fails reaches the caller as a
\* parse_exception, returns nothing, and leaves the caller's own object, the
\* destination of load(str, result), as it was before the call.
C8_AllOrNothing ==
    (Decoded /\ status # "ok") =>
        /\ status = "parse_exception"
        /\ returned = <<>>
        /\ value = before

\* C8, as far as it reaches: a decode that fails returns nothing
C8_NothingReturned ==
    (Decoded /\ status # "ok") => returned = <<>>

\* s is made of '0' and '1' alone
Binary(s) == \A i \in 1..Len(s) : s[i] \in {"0", "1"}

\* C9: the wire form of a bitset is gated by its width: encode writes an
\* unsigned 64-bit integer for a width of at most 64 and a string of the width's
\* '0'/'1' characters otherwise; decode takes a string of '0'/'1' at any width
\* and an unsigned 64-bit integer at a width of at most 64, and fails for every
\* other node; the bits decoded from either form of a bitset are its bits.
C9_BitsetWireForm ==
    /\ (op = "dumps" /\ T0.t = "bitset") =>
           IF T0.N <= 64 THEN IsKind("Uint64", doc) /\ GetKind("Uint64", doc) = value
           ELSE /\ IsString(doc)
                /\ Binary(doc.s)
                /\ doc.s = bitset_to_string(T0.N, value)
    /\ (Decoded /\ T0.t = "bitset") =>
           /\ status = "ok" <=>
                  \/ IsString(doc) /\ Binary(doc.s)
                  \/ T0.N <= 64 /\ IsKind("Uint64", doc)
           /\ (status = "ok" /\ IsString(doc) /\ Len(doc.s) = T0.N) =>
                  doc.s = bitset_to_string(T0.N, Result)
           /\ (status = "ok" /\ ~IsString(doc)) =>
                  Result = GetKind("Uint64", doc) \cap (0..(T0.N - 1))

\* C9, as far as it reaches: the same of a program built with libc++
C9_BitsetWireFormLibcxx ==
    stdlib = "libc++" => C9_BitsetWireForm

\* the field of the last call was handed over as a pointer: by the pointer form,
\* or as a field that is itself a pointer
ByPointer == call.op = "pointer" \/ (call.op = "required" /\ call.name = NameP)

\* that pointer was null
NullPointer ==
    IF call.op = "pointer" THEN call.null ELSE prior.dto[NameP] = <<>>

\* what it points to after the call
Pointee == IF call.op = "pointer" THEN dto[NameX] ELSE dto[NameP][1]

\* C10: a field handed to the walker as a null pointer makes the call a no-op:
\* reading raises nothing, even without the member, and stores nothing; writing
\* adds no member.  With a pointer that is not null, a null member resets the
\* pointee to its type's default, and anything else goes as by the required
\* form on the pointee.
C10_PointerField ==
    /\ (ReadBy({"pointer", "required"}) /\ ByPointer /\ NullPointer) =>
           /\ ended = "ok"
           /\ dto = prior.dto
    /\ (WroteBy({"pointer", "required"}) /\ ByPointer /\ NullPointer) =>
           writer.v = prior.v
    /\ (ReadBy({"pointer", "required"}) /\ ByPointer /\ ~NullPointer) =>
           IF Sought = 0 THEN ended # "ok"
           ELSE IF IsNull(reader.v.members[Sought].value)
           THEN ended = "ok" /\ Pointee = DefaultOf(TInt)
           ELSE IF IsKind("Int", reader.v.members[Sought].value)
           THEN ended = "ok" /\ Pointee = GetKind("Int", reader.v.members[Sought].value)
           ELSE ended # "ok"
    /\ (WroteBy({"pointer", "required"}) /\ ByPointer /\ ~NullPointer) =>
           /\ Len(writer.v.members) = Len(prior.v.members) + 1
           /\ writer.v.members[FindMember(writer.v, call.name)].value = IntV(Pointee)

\* C10, as far as it reaches: with the pointer form, json_reader::operator()(name,
\* p_value) and its json_writer counterpart, a null pointer is a no-op either way
C10_NullByPointerForm ==
    /\ (ReadBy({"pointer"}) /\ call.null) => (ended = "ok" /\ dto = prior.dto)
    /\ (WroteBy({"pointer"}) /\ call.null) => writer.v = prior.v

\* the last call encoded a variant
VariantEncoded == op = "dumps" /\ T0.t = "variant"

\* C11: encoding a variant gives an object whose first member is "type", holding
\* the index of the alternative held; an alternative that is not struct-like
\* adds exactly one member more, "value", holding the alternative's encoding; a
\* struct-like alternative adds its own fields after "type", in the same object,
\* and "type" stays as it was written.
C11_VariantWireForm ==
    VariantEncoded =>
        LET alt_t == T0.alts[index(value) + 1]
            own == dumps(alt_t, held(value))
        IN  /\ IsObject(doc)
            /\ Len(doc.members) >= 1
            /\ doc.members[1] = Member(NameType, Uint64V(BitsOf(index(value))))
            /\ IF struct_like(alt_t)
               THEN /\ IsObject(own)
                    /\ Tail(doc.members) = own.members
                    /\ Count(doc, NameType) = 1
               ELSE /\ Len(doc.members) = 2
                    /\ doc.members[2] = Member(NameValue, own)

\* a variant holding a struct was encoded, and both its fields follow "type"
C11_StructInlined ==
    /\ VariantEncoded
    /\ struct_like(T0.alts[index(value) + 1])
    /\ Len(doc.members) = 3
    /\ doc.members[2] = Member(NameX, IntV(held(value)[NameX]))
    /\ doc.members[3] = Member(NameY, IntV(held(value)[NameY]))

\* the object converted is an enum with a name table
NamedEnum == T0.t = "named_enum"

\* C12: for an enum with a table of n names, decoding a string equal to the name
\* at index i gives the value of ordinal i, and decoding a string the table
\* lacks, or a node that is not a string, fails; encoding a value of ordinal
\* i < n writes the name at index i, and a value of ordinal n or more never
\* indexes the table: nothing undefined is written and the process goes on.
C12_NamedEnum ==
    /\ (Decoded /\ NamedEnum) =>
           /\ status = "ok" <=>
                  (IsString(doc) /\ \E i \in 1..Len(T0.names) : T0.names[i] = doc.s)
           /\ status = "ok" => T0.names[Result + 1] = doc.s
    /\ (op = "dumps" /\ NamedEnum) =>
           IF value < Len(T0.names)
           THEN status = "ok" /\ doc = StrV(T0.names[value + 1])
           ELSE status # "terminated" /\ doc # UndefinedV

\* C12, as far as it reaches: the same while the values encoded are ones the
\* table names
C12_NamedEnumWithinTable ==
    ((op = "dumps" /\ NamedEnum) => value < Len(T0.names)) => C12_NamedEnum

\* an enumerator past the end of the name table was encoded
C12_PastTheTable ==
    /\ op = "dumps"
    /\ NamedEnum
    /\ value = Len(T0.names)

\* the object converted is an enum without a name table
OrdinalEnum == T0.t = "enum"

\* C13: decoding a node into an enum that declares Enum::max succeeds exactly
\* when the node is an integer of the underlying kind from 0 up to, not
\* including, the sentinel, so a negative value and a value at or above the
\* sentinel are refused; an enum that declares no bound takes every value of the
\* underlying type; a node that is not of the underlying integer kind fails;
\* the value decoded is the node's integer, and encode writes the underlying
\* integer.
C13_OrdinalEnum ==
    /\ (Decoded /\ OrdinalEnum) =>
           /\ status = "ok" <=>
                  /\ IsKind(T0.u_type, doc)
                  /\ T0.enum_with_max => GetKind(T0.u_type, doc) \in 0..(T0.max - 1)
           /\ status = "ok" => Result = GetKind(T0.u_type, doc)
           /\ status # "ok" => status = "parse_exception"
    /\ (op = "dumps" /\ OrdinalEnum) =>
           doc = IntV(value) /\ status = "ok"

\* the sentinel itself was offered to an enum that declares it, and refused
C13_SentinelRefused ==
    /\ Decoded
    /\ OrdinalEnum
    /\ T0.enum_with_max
    /\ doc = IntV(T0.max)
    /\ status = "parse_exception"

\* new is old with every defaulted field of T at its default, every field that
\* is itself a struct with fields so treated, and every other field as it was
RECURSIVE Defaulted(_, _, _)
Defaulted(T, old, new) ==
    \A name \in FieldNames(T) :
        LET c == FieldCall(T, name)
        IN  IF c.form \in {"default", "factory"}
            THEN new[name] = static_cast(c.T, c.TT, c.def)
            ELSE IF c.form = "required" /\ c.T.t = "struct"
            THEN Defaulted(c.T, old[name], new[name])
            ELSE new[name] = old[name]

\* C14: init(value) on a struct with fields needs no document and never fails;
\* after it every field declared with a default, by value or by factory, equals
\* that default, every field declared without one that is itself a struct with
\* fields has been initialized by the same rule, and every other field declared
\* without a default is as it was.
C14_Initializer ==
    op = "init" =>
        /\ status = "ok"
        /\ DOMAIN value = DOMAIN before
        /\ Defaulted(T0, before, value)

\* a Line was initialized: its own default and its Point's were applied over
\* other values, and the fields without a default kept theirs
C14_NestedDefaulted ==
    /\ op = "init"
    /\ T0 = Line
    /\ before[NameY] # 1
    /\ value[NameY] = 1
    /\ before[NameX][NameY] # 1
    /\ value[NameX][NameY] = 1
    /\ value[NameX][NameX] = 1
    /\ value[NameId] = 1

====
